---- MODULE Spec2Model ----
(***************************************************************************)
(* ReadRoom API: the sliding-window flood protection of story and chapter  *)
(* creation (app/flood_protection.py, app/chapter_flood_protection.py) and *)
(* the request handlers around it (app/routes/story.py, chapter.py), with  *)
(* the likes and bookmarks of app/routes/social.py.                        *)
(*                                                                         *)
(* Time is counted in whole seconds.  One clock `now` stands for both      *)
(* datetime.utcnow() of the application and func.now() of the database     *)
(* (server_default of created_at): the two are taken to be synchronised.   *)
(* A handler is cut into steps at the `await`s that matter for the rate    *)
(* limit: between two steps of one request any other request may run and   *)
(* the clock may advance.                                                  *)
(***************************************************************************)
EXTENDS Integers, FiniteSets, Sequences, TLC

VARIABLES
    now,                      \* the wall clock, in seconds
    is_active,                \* users.is_active, by user id
    stories,                  \* the stories table: rows [id, author_id, created_at, updated_at]
    chapters,                 \* the chapters table: rows [id, story_id, chapter_number,
                              \*                           created_at, updated_at]
    next_story_id,            \* the serial of stories.id
    next_chapter_id,          \* the serial of chapters.id
    flood_protection,         \* the FloodProtection instance: [max_stories, time_window]
    chapter_flood_protection, \* a ChapterFloodProtection instance: [max_chapters, time_window]
    req,                      \* the requests (coroutines) in flight, by slot
    created_log,              \* history: every story row ever committed
    likes,                    \* the likes table: rows [id, user_id, story_id]
    bookmarks,                \* the bookmarks table: rows [id, user_id, story_id]
    next_like_id,             \* the serial of likes.id
    next_bookmark_id          \* the serial of bookmarks.id

vars == <<now, is_active, stories, chapters, next_story_id, next_chapter_id,
          flood_protection, chapter_flood_protection, req, created_log,
          likes, bookmarks, next_like_id, next_bookmark_id>>

\* the tables of models/social.py and their serials
social == <<likes, bookmarks, next_like_id, next_bookmark_id>>

\* no like and no bookmark has been created yet
NoSocial == likes = {} /\ bookmarks = {} /\ next_like_id = 1 /\ next_bookmark_id = 1

(***************************************************************************)
(* Bounds of the model and constants of the program.                       *)
(***************************************************************************)
\* FloodProtection(max_stories=5, time_window=20) of routes/story.py
StoryMax == 5
StoryWindow == 20
\* the defaults of ChapterFloodProtection.__init__
ChapterMaxDefault == 10
ChapterWindowDefault == 20
\* timedelta(minutes=...) in seconds
SecondsPerMinute == 60

\* stories the first author already has when the model starts, all created
\* in second 0, and the last id the serial of stories.id gives out
InitStories == 4
MaxStoryId == 6
\* the story ids and chapter ids a client sends to delete_story,
\* delete_chapter, update_story and update_chapter
MaxDeleteId == 1
\* clock readings taken right after an instant of interest
MaxEps == 1
\* max_stories and max_chapters drawn for a limiter called on its own
MaxPolicyEvents == 2
\* chapter rows created in the event log of a limiter called on its own
MaxLogRows == 2
\* chapter numbers a client sends, chapters of the two stories of the first
\* author when SpecChapter starts, and the chapter rows created after that
MaxChapterNumber == 6
InitChaptersA == 5
InitChaptersB == 4
MaxNewChapters == 3
\* likes.id and bookmarks.id go up to these
MaxLikeId == 2
MaxBookmarkId == 2

\* the NULL of a nullable column (updated_at before the first update)
Null == -1

Users == {1, 2, 3}
InactiveUsers == {3}
Requests == {"r1", "r2"}

Window(fp) == fp.time_window * SecondsPerMinute

\* The instants the clock is read at: the start and one window later, each
\* with the seconds right after it.
Instants(w) == (0..MaxEps) \cup (w..(w + MaxEps))

(***************************************************************************)
(* FloodProtection.check_rate_limit, piece by piece.                       *)
(***************************************************************************)
\* FloodProtection.__init__
FloodProtection(max_stories, time_window) ==
    [max_stories |-> max_stories, time_window |-> time_window]

\* time_threshold = datetime.utcnow() - timedelta(minutes=self.time_window)
MutTimeThresholdAhead(fp, t) == t + Window(fp)
TimeThreshold(fp, t) == t - Window(fp)

\* select count() from stories where author_id = :user_id and created_at >= :time_threshold
MutStoryCountQueryStrict(table, user_id, time_threshold) ==
    Cardinality({s \in table : s.author_id = user_id /\ s.created_at > time_threshold})

MutStoryCountQueryAllAuthors(table, user_id, time_threshold) ==
    Cardinality({s \in table : s.created_at >= time_threshold})

MutStoryCountQueryLog(table, user_id, time_threshold) ==
    Cardinality({s \in created_log : s.author_id = user_id /\ s.created_at >= time_threshold})

MutStoryCountQueryClosedWindow(table, user_id, time_threshold) ==
    Cardinality({s \in table : /\ s.author_id = user_id
                               /\ s.created_at >= time_threshold
                               /\ s.created_at <= time_threshold + StoryWindow * SecondsPerMinute})

MutStoryCountQueryAllTime(table, user_id, time_threshold) ==
    Cardinality({s \in table : s.author_id = user_id})

StoryCountQuery(table, user_id, time_threshold) ==
    Cardinality({s \in table : s.author_id = user_id /\ s.created_at >= time_threshold})

\* if story_count >= self.max_stories
MutLimitExceededStrict(count, max_events) == count > max_events
MutLimitExceededTwoLate(count, max_events) == count >= max_events + 2
LimitExceeded(count, max_events) == count >= max_events

\* remaining_time = time_threshold + timedelta(minutes=self.time_window) - datetime.utcnow()
RemainingTime(fp, time_threshold, t) == time_threshold + Window(fp) - t

\* int(x / 60): true division, then truncation toward zero
TruncDiv(x, d) == IF x >= 0 THEN x \div d ELSE -((-x) \div d)
Minutes(remaining) == TruncDiv(remaining, SecondsPerMinute)
\* int(x % 60): Python's % takes the sign of the divisor
SecondsPart(remaining) == remaining % SecondsPerMinute

(***************************************************************************)
(* ChapterFloodProtection.check_rate_limit, piece by piece.                *)
(***************************************************************************)
\* ChapterFloodProtection.__init__
ChapterFloodProtection(max_chapters, time_window) ==
    [max_chapters |-> max_chapters, time_window |-> time_window]

\* routes/chapter.py imports and constructs no ChapterFloodProtection
NoChapterFloodProtection == [max_chapters |-> 0, time_window |-> 0]

\* time_threshold = datetime.utcnow() - timedelta(minutes=self.time_window)
ChapterTimeThreshold(cfp, t) == t - Window(cfp)

\* select count() from chapters join stories on stories.id = chapters.story_id
\*  where stories.author_id = :user_id and chapters.created_at >= :time_threshold
MutChapterCountQueryOneStory(chapter_table, story_table, story_id, user_id, time_threshold) ==
    Cardinality({c \in chapter_table :
                    /\ c.story_id = story_id
                    /\ \E s \in story_table : s.id = c.story_id /\ s.author_id = user_id
                    /\ c.created_at >= time_threshold})

ChapterCountQuery(chapter_table, story_table, story_id, user_id, time_threshold) ==
    Cardinality({c \in chapter_table :
                    /\ \E s \in story_table : s.id = c.story_id /\ s.author_id = user_id
                    /\ c.created_at >= time_threshold})

\* if chapter_count >= self.max_chapters
ChapterLimitExceeded(count, max_events) == count >= max_events

\* remaining_time = time_threshold + timedelta(minutes=self.time_window) - datetime.utcnow()
ChapterRemainingTime(cfp, time_threshold, t) == time_threshold + Window(cfp) - t

(***************************************************************************)
(* Requests: a slot holds one coroutine, from its first step to its        *)
(* response; the response stays in the slot until the slot is used again.  *)
(***************************************************************************)
\* check: how the request's call of check_rate_limit ended ("Allowed" is
\* `return True`, "Denied" the HTTPException 429, "StoreUnavailable" the
\* exception of db.execute); queries: the calls of db.execute(query) it made;
\* caught: the except clause that produced the response of a social route;
\* chapter_id, chapter_number: what a chapter request names
Idle == [op |-> "none", pc |-> "idle", user |-> 0, story_id |-> 0, time_threshold |-> 0,
         status |-> 0, remaining |-> 0, minutes |-> 0, seconds |-> 0,
         check |-> "none", queries |-> 0, detail |-> <<>>, since |-> 0, seen |-> {},
         caught |-> "none", chapter_id |-> 0, chapter_number |-> 0]

Free(r) == req[r].pc \in {"idle", "done"}

Started(op, pc, u, sid, th) ==
    [Idle EXCEPT !.op = op, !.pc = pc, !.user = u, !.story_id = sid, !.time_threshold = th]

Response(r, code) ==
    [Idle EXCEPT !.op = req[r].op, !.pc = "done", !.user = req[r].user, !.status = code,
                 !.check = req[r].check, !.queries = req[r].queries]

\* result = await db.execute(query), and how check_rate_limit ended after it
Checked(rec, outcome) == [rec EXCEPT !.check = outcome, !.queries = @ + 1]

\* f"Rate limit exceeded. You can create new {resource} in {minutes} minutes and {seconds} seconds"
RateLimitDetail(resource, minutes, seconds) ==
    <<"Rate limit exceeded. You can create new ", resource, " in ",
      minutes, " minutes and ", seconds, " seconds">>

\* raise HTTPException(status_code=429, detail=f"... {minutes} minutes and {seconds} seconds")
RateLimitResponse(r, fp) ==
    LET remaining == RemainingTime(fp, req[r].time_threshold, now)
    IN  [Checked(Response(r, 429), "Denied")
            EXCEPT !.remaining = remaining,
                   !.minutes = Minutes(remaining),
                   !.seconds = SecondsPart(remaining),
                   !.detail = RateLimitDetail("story", Minutes(remaining),
                                              SecondsPart(remaining))]

\* the same lines of chapter_flood_protection.py
ChapterRateLimitResponse(r, cfp) ==
    LET remaining == ChapterRemainingTime(cfp, req[r].time_threshold, now)
    IN  [Checked(Response(r, 429), "Denied")
            EXCEPT !.remaining = remaining,
                   !.minutes = Minutes(remaining),
                   !.seconds = SecondsPart(remaining),
                   !.detail = RateLimitDetail("chapter", Minutes(remaining),
                                              SecondsPart(remaining))]

(***************************************************************************)
(* routes/story.py: create_story.                                          *)
(***************************************************************************)
\* lines 31-35: raise HTTPException(status_code=403, detail="Your account is not active")
AccountNotActive == <<"Your account is not active">>

\* lines 29-38 and flood_protection.py line 37: the account test, then the
\* first reading of the clock
MutCreateStoryBeginLimitFirst(r, u) ==
    /\ Free(r)
    /\ req' = [req EXCEPT ![r] = Started("create_story", "check", u, 0,
                                         TimeThreshold(flood_protection, now))]
    /\ UNCHANGED <<now, is_active, stories, chapters, next_story_id, next_chapter_id,
                   flood_protection, chapter_flood_protection, created_log, social>>

MutCreateStoryBeginSkipsCheck(r, u) ==
    /\ Free(r)
    /\ req' = [req EXCEPT ![r] =
                 IF ~is_active[u]
                 THEN [Started("create_story", "done", u, 0, 0)
                         EXCEPT !.status = 403, !.detail = AccountNotActive]
                 ELSE Started("create_story", "commit", u, 0, 0)]
    /\ UNCHANGED <<now, is_active, stories, chapters, next_story_id, next_chapter_id,
                   flood_protection, chapter_flood_protection, created_log, social>>

CreateStoryBegin(r, u) ==
    /\ Free(r)
    /\ req' = [req EXCEPT ![r] =
                 IF ~is_active[u]
                 THEN [Started("create_story", "done", u, 0, 0)
                         EXCEPT !.status = 403, !.detail = AccountNotActive]
                 ELSE Started("create_story", "check", u, 0,
                              TimeThreshold(flood_protection, now))]
    /\ UNCHANGED <<now, is_active, stories, chapters, next_story_id, next_chapter_id,
                   flood_protection, chapter_flood_protection, created_log, social>>

\* flood_protection.py lines 40-60, then routes/story.py lines 40-64: the
\* counting query (a query that cannot be executed raises, and create_story
\* answers 500), the decision with the second reading of the clock, then
\* the title and the cover
MutCreateStoryCheckInsertsWhenDenied(r) ==
    /\ req[r].op = "create_story" /\ req[r].pc = "check"
    /\ IF LimitExceeded(StoryCountQuery(stories, req[r].user, req[r].time_threshold),
                        flood_protection.max_stories)
       THEN LET row == [id |-> next_story_id, author_id |-> req[r].user,
                        created_at |-> now, updated_at |-> Null]
            IN  /\ next_story_id <= MaxStoryId
                /\ req' = [req EXCEPT ![r] = RateLimitResponse(r, flood_protection)]
                /\ stories' = stories \cup {row}
                /\ created_log' = created_log \cup {row}
                /\ next_story_id' = next_story_id + 1
       ELSE /\ req' = [req EXCEPT ![r] =
                         Checked([req[r] EXCEPT !.pc = "commit", !.time_threshold = 0],
                                 "Allowed")]
            /\ UNCHANGED <<stories, next_story_id, created_log>>
    /\ UNCHANGED <<now, is_active, chapters, next_chapter_id,
                   flood_protection, chapter_flood_protection, social>>

MutCreateStoryCheckInsertsBeforeValidation(r) ==
    /\ req[r].op = "create_story" /\ req[r].pc = "check"
    /\ next_story_id <= MaxStoryId
    /\ \E title_ok \in BOOLEAN :
          LET row == [id |-> next_story_id, author_id |-> req[r].user,
                      created_at |-> now, updated_at |-> Null]
          IN  IF LimitExceeded(StoryCountQuery(stories, req[r].user, req[r].time_threshold),
                               flood_protection.max_stories)
              THEN /\ req' = [req EXCEPT ![r] = RateLimitResponse(r, flood_protection)]
                   /\ UNCHANGED <<stories, next_story_id, created_log>>
              ELSE /\ req' = [req EXCEPT ![r] =
                                Checked(Response(r, IF title_ok THEN 201 ELSE 422), "Allowed")]
                   /\ stories' = stories \cup {row}
                   /\ created_log' = created_log \cup {row}
                   /\ next_story_id' = next_story_id + 1
    /\ UNCHANGED <<now, is_active, chapters, next_chapter_id,
                   flood_protection, chapter_flood_protection, social>>

MutCreateStoryCheckFailsOpen(r) ==
    /\ req[r].op = "create_story" /\ req[r].pc = "check"
    /\ \E store_ok \in BOOLEAN :
          req' = [req EXCEPT ![r] =
                    IF ~store_ok
                    THEN Checked([req[r] EXCEPT !.pc = "commit", !.time_threshold = 0],
                                 "StoreUnavailable")
                    ELSE IF LimitExceeded(StoryCountQuery(stories, req[r].user,
                                                          req[r].time_threshold),
                                          flood_protection.max_stories)
                         THEN RateLimitResponse(r, flood_protection)
                    ELSE Checked([req[r] EXCEPT !.pc = "commit", !.time_threshold = 0],
                                 "Allowed")]
    /\ UNCHANGED <<now, is_active, stories, chapters, next_story_id, next_chapter_id,
                   flood_protection, chapter_flood_protection, created_log, social>>

CreateStoryCheck(r) ==
    /\ req[r].op = "create_story" /\ req[r].pc = "check"
    /\ \E store_ok \in BOOLEAN, title_ok \in BOOLEAN, cover_ok \in BOOLEAN :
          req' = [req EXCEPT ![r] =
                    IF ~store_ok THEN Checked(Response(r, 500), "StoreUnavailable")
                    ELSE IF LimitExceeded(StoryCountQuery(stories, req[r].user,
                                                          req[r].time_threshold),
                                          flood_protection.max_stories)
                         THEN RateLimitResponse(r, flood_protection)
                    ELSE IF ~title_ok THEN Checked(Response(r, 422), "Allowed")
                    ELSE IF ~cover_ok THEN Checked(Response(r, 415), "Allowed")
                    ELSE Checked([req[r] EXCEPT !.pc = "commit", !.time_threshold = 0],
                                 "Allowed")]
    /\ UNCHANGED <<now, is_active, stories, chapters, next_story_id, next_chapter_id,
                   flood_protection, chapter_flood_protection, created_log, social>>

\* routes/story.py lines 66-94: the insert and its commit; created_at is the
\* server default func.now()
MutCreateStoryCommitRecount(r) ==
    /\ req[r].op = "create_story" /\ req[r].pc = "commit"
    /\ next_story_id <= MaxStoryId
    /\ IF LimitExceeded(StoryCountQuery(stories, req[r].user,
                                        TimeThreshold(flood_protection, now)),
                        flood_protection.max_stories)
       THEN /\ req' = [req EXCEPT ![r] = Response(r, 429)]
            /\ UNCHANGED <<stories, next_story_id, created_log>>
       ELSE LET row == [id |-> next_story_id, author_id |-> req[r].user,
                        created_at |-> now, updated_at |-> Null]
            IN  /\ stories' = stories \cup {row}
                /\ created_log' = created_log \cup {row}
                /\ next_story_id' = next_story_id + 1
                /\ req' = [req EXCEPT ![r] = Response(r, 201)]
    /\ UNCHANGED <<now, is_active, chapters, next_chapter_id,
                   flood_protection, chapter_flood_protection, social>>

CreateStoryCommit(r) ==
    /\ req[r].op = "create_story" /\ req[r].pc = "commit"
    /\ next_story_id <= MaxStoryId
    /\ \E commit_ok \in BOOLEAN :
          IF commit_ok
          THEN LET row == [id |-> next_story_id, author_id |-> req[r].user,
                        created_at |-> now, updated_at |-> Null]
               IN  /\ stories' = stories \cup {row}
                   /\ created_log' = created_log \cup {row}
                   /\ next_story_id' = next_story_id + 1
                   /\ req' = [req EXCEPT ![r] = Response(r, 201)]
          ELSE /\ req' = [req EXCEPT ![r] = Response(r, 500)]
               /\ UNCHANGED <<stories, next_story_id, created_log>>
    /\ UNCHANGED <<now, is_active, chapters, next_chapter_id,
                   flood_protection, chapter_flood_protection, social>>

(***************************************************************************)
(* routes/story.py: delete_story.  Chapters go with their story            *)
(* (ondelete="CASCADE", cascade="all, delete-orphan").                     *)
(***************************************************************************)
MutDeleteStoryKeepsChapters(u, sid) ==
    /\ is_active[u]
    /\ \E s \in stories :
          /\ s.id = sid
          /\ s.author_id = u
          /\ stories' = stories \ {s}
          /\ likes' = {l \in likes : l.story_id # sid}
          /\ bookmarks' = {b \in bookmarks : b.story_id # sid}
    /\ UNCHANGED <<now, is_active, chapters, next_story_id, next_chapter_id,
                   flood_protection, chapter_flood_protection, req, created_log,
                   next_like_id, next_bookmark_id>>

DeleteStory(u, sid) ==
    /\ is_active[u]
    /\ \E s \in stories :
          /\ s.id = sid
          /\ s.author_id = u
          /\ stories' = stories \ {s}
          /\ chapters' = {c \in chapters : c.story_id # sid}
          /\ likes' = {l \in likes : l.story_id # sid}
          /\ bookmarks' = {b \in bookmarks : b.story_id # sid}
    /\ UNCHANGED <<now, is_active, next_story_id, next_chapter_id, flood_protection,
                   chapter_flood_protection, req, created_log, next_like_id,
                   next_bookmark_id>>

(***************************************************************************)
(* The clock.                                                              *)
(***************************************************************************)
Tick ==
    /\ \E t \in Instants(Window(flood_protection))
                  \cup Instants(Window(chapter_flood_protection)) :
          t > now /\ now' = t
    /\ UNCHANGED <<is_active, stories, chapters, next_story_id, next_chapter_id,
                   flood_protection, chapter_flood_protection, req, created_log, social>>

(***************************************************************************)
(* The application as wired in routes/story.py, on a database in which the *)
(* first author has created InitStories stories in second 0.               *)
(***************************************************************************)
InitialStories ==
    {[id |-> i, author_id |-> 1, created_at |-> 0, updated_at |-> Null] : i \in 1..InitStories}

Init ==
    /\ now = 0
    /\ is_active = [u \in Users |-> u \notin InactiveUsers]
    /\ stories = InitialStories
    /\ chapters = {}
    /\ next_story_id = InitStories + 1
    /\ next_chapter_id = 1
    /\ flood_protection = FloodProtection(StoryMax, StoryWindow)
    /\ chapter_flood_protection = NoChapterFloodProtection
    /\ req = [r \in Requests |-> Idle]
    /\ NoSocial
    /\ created_log = InitialStories

Next ==
    \/ \E r \in Requests, u \in Users : CreateStoryBegin(r, u)
    \/ \E r \in Requests : CreateStoryCheck(r)
    \/ \E r \in Requests : CreateStoryCommit(r)
    \/ \E u \in Users, sid \in 1..MaxDeleteId : DeleteStory(u, sid)
    \/ Tick

Spec == Init /\ [][Next]_vars

(***************************************************************************)
(* The same application when the story-creation requests of one actor do   *)
(* not overlap: a request of an actor starts only when no other request of *)
(* that actor is in flight.                                                *)
(***************************************************************************)
NoneInFlight(u) == \A r \in Requests : Free(r) \/ req[r].user # u

NextSeq ==
    \/ \E r \in Requests, u \in Users : NoneInFlight(u) /\ CreateStoryBegin(r, u)
    \/ \E r \in Requests : CreateStoryCheck(r)
    \/ \E r \in Requests : CreateStoryCommit(r)
    \/ \E u \in Users, sid \in 1..MaxDeleteId : DeleteStory(u, sid)
    \/ Tick

SpecSeq == Init /\ [][NextSeq]_vars

(***************************************************************************)
(* routes/chapter.py: create_chapter and delete_chapter.  No step of       *)
(* create_chapter calls a rate limiter.  A request that is answered 404,   *)
(* 403 or 500 changes no table.                                            *)
(***************************************************************************)
\* lines 22-39: the story must exist (404) and belong to the requester
\* (403); unique_chapter_number makes the commit of a duplicate
\* (story_id, chapter_number) fail (500)
CreateChapter(u, sid, n) ==
    /\ \E s \in stories : s.id = sid /\ s.author_id = u
    /\ ~\E c \in chapters : c.story_id = sid /\ c.chapter_number = n
    /\ chapters' = chapters \cup {[id |-> next_chapter_id, story_id |-> sid,
                                   chapter_number |-> n, created_at |-> now, updated_at |-> Null]}
    /\ next_chapter_id' = next_chapter_id + 1
    /\ UNCHANGED <<now, is_active, stories, next_story_id,
                   flood_protection, chapter_flood_protection, req, created_log, social>>

\* lines 102-117
DeleteChapter(u, cid) ==
    /\ \E c \in chapters :
          /\ c.id = cid
          /\ \E s \in stories : s.id = c.story_id /\ s.author_id = u
          /\ chapters' = chapters \ {c}
    /\ UNCHANGED <<now, is_active, stories, next_story_id, next_chapter_id,
                   flood_protection, chapter_flood_protection, req, created_log, social>>

(***************************************************************************)
(* routes/story.py: update_story, and routes/chapter.py: update_chapter.   *)
(* The fields of StoryUpdate (title, summary, genre, cover_image_url) and  *)
(* of ChapterUpdate (title, content) are set on the row, and the commit    *)
(* stamps updated_at (onupdate=func.now()).  A request that is answered    *)
(* 403, 404, 422, 415 or 500 changes no table.                             *)
(***************************************************************************)
MutUpdateStoryStampsCreatedAt(u, sid) ==
    /\ is_active[u]
    /\ \E s \in stories :
          /\ s.id = sid
          /\ s.author_id = u
          /\ stories' = (stories \ {s})
                           \cup {[s EXCEPT !.created_at = now, !.updated_at = now]}
    /\ UNCHANGED <<now, is_active, chapters, next_story_id, next_chapter_id,
                   flood_protection, chapter_flood_protection, req, created_log, social>>

\* routes/story.py lines 308-366
UpdateStory(u, sid) ==
    /\ is_active[u]
    /\ \E s \in stories :
          /\ s.id = sid
          /\ s.author_id = u
          /\ stories' = (stories \ {s}) \cup {[s EXCEPT !.updated_at = now]}
    /\ UNCHANGED <<now, is_active, chapters, next_story_id, next_chapter_id,
                   flood_protection, chapter_flood_protection, req, created_log, social>>

\* routes/chapter.py lines 72-88
UpdateChapter(u, cid) ==
    /\ \E c \in chapters :
          /\ c.id = cid
          /\ \E s \in stories : s.id = c.story_id /\ s.author_id = u
          /\ chapters' = (chapters \ {c}) \cup {[c EXCEPT !.updated_at = now]}
    /\ UNCHANGED <<now, is_active, stories, next_story_id, next_chapter_id,
                   flood_protection, chapter_flood_protection, req, created_log, social>>

(***************************************************************************)
(* The chapter routes of the application, on a database in which the first *)
(* author owns stories 1 and 2, with InitChaptersA and InitChaptersB       *)
(* chapters created in second 0, and the second author owns story 3.       *)
(***************************************************************************)
ChapterStories ==
    {[id |-> 1, author_id |-> 1, created_at |-> 0, updated_at |-> Null],
     [id |-> 2, author_id |-> 1, created_at |-> 0, updated_at |-> Null],
     [id |-> 3, author_id |-> 2, created_at |-> 0, updated_at |-> Null]}

InitialChapters ==
    {[id |-> n, story_id |-> 1, chapter_number |-> n, created_at |-> 0, updated_at |-> Null] :
        n \in 1..InitChaptersA}
    \cup {[id |-> InitChaptersA + n, story_id |-> 2, chapter_number |-> n,
            created_at |-> 0, updated_at |-> Null] :
            n \in 1..InitChaptersB}

MaxChapterId == InitChaptersA + InitChaptersB + MaxNewChapters

InitChapter ==
    /\ now = 0
    /\ is_active = [u \in Users |-> u \notin InactiveUsers]
    /\ stories = ChapterStories
    /\ chapters = InitialChapters
    /\ next_story_id = 4
    /\ next_chapter_id = InitChaptersA + InitChaptersB + 1
    /\ flood_protection = FloodProtection(StoryMax, StoryWindow)
    /\ chapter_flood_protection = NoChapterFloodProtection
    /\ req = [r \in Requests |-> Idle]
    /\ NoSocial
    /\ created_log = ChapterStories

NextChapter ==
    \/ \E u \in Users, sid \in 1..3, n \in 1..MaxChapterNumber :
          next_chapter_id <= MaxChapterId /\ CreateChapter(u, sid, n)
    \/ \E u \in Users, cid \in 1..MaxDeleteId : DeleteChapter(u, cid)
    \/ \E u \in Users, sid \in 1..MaxDeleteId : DeleteStory(u, sid)
    \/ Tick

SpecChapter == InitChapter /\ [][NextChapter]_vars

(***************************************************************************)
(* The two limiters called on their own: each is constructed with a policy *)
(* whose number of events is drawn from a small set and whose window is    *)
(* the 20 minutes of the application, and its check_rate_limit is called   *)
(* on the stories of SpecChapter, while chapter rows are committed and the *)
(* clock advances.                                                         *)
(***************************************************************************)
\* the ids of the rows of its actor that the counting query of call r of
\* the story check runs over
RowsOf(r) == {s.id : s \in {s \in stories : s.author_id = req[r].user}}

\* what the counting query of a call of the story check was given, kept
\* with the result of the call: its time_threshold and the rows of the
\* actor in the table
Observed(r, rec) == [rec EXCEPT !.since = req[r].time_threshold, !.seen = RowsOf(r)]

\* FloodProtection.check_rate_limit, line 37
CheckRateLimitBegin(r, u) ==
    /\ Free(r)
    /\ req' = [req EXCEPT ![r] = Started("check_rate_limit", "check", u, 0,
                                         TimeThreshold(flood_protection, now))]
    /\ UNCHANGED <<now, is_active, stories, chapters, next_story_id, next_chapter_id,
                   flood_protection, chapter_flood_protection, created_log, social>>

\* FloodProtection.check_rate_limit, lines 40-60; status 200 stands for
\* `return True`, 500 for the exception of a query that cannot be executed
MutCheckRateLimitReturnLateThreshold(r) ==
    /\ req[r].op = "check_rate_limit" /\ req[r].pc = "check"
    /\ req' = [req EXCEPT ![r] =
                 IF LimitExceeded(StoryCountQuery(stories, req[r].user,
                                                  TimeThreshold(flood_protection, now)),
                                  flood_protection.max_stories)
                 THEN Observed(r, RateLimitResponse(r, flood_protection))
                 ELSE Observed(r, Checked(Response(r, 200), "Allowed"))]
    /\ UNCHANGED <<now, is_active, stories, chapters, next_story_id, next_chapter_id,
                   flood_protection, chapter_flood_protection, created_log, social>>

MutCheckRateLimitReturnRetries(r) ==
    /\ req[r].op = "check_rate_limit" /\ req[r].pc = "check"
    /\ \E store_ok \in BOOLEAN :
          req' = [req EXCEPT ![r] =
                    IF ~store_ok
                    THEN IF req[r].queries = 0
                         THEN [req[r] EXCEPT !.queries = @ + 1]
                         ELSE Checked(Response(r, 500), "StoreUnavailable")
                    ELSE IF LimitExceeded(StoryCountQuery(stories, req[r].user,
                                                          req[r].time_threshold),
                                          flood_protection.max_stories)
                         THEN Observed(r, RateLimitResponse(r, flood_protection))
                    ELSE Observed(r, Checked(Response(r, 200), "Allowed"))]
    /\ UNCHANGED <<now, is_active, stories, chapters, next_story_id, next_chapter_id,
                   flood_protection, chapter_flood_protection, created_log, social>>

MutCheckRateLimitReturnRecordsCall(r) ==
    /\ req[r].op = "check_rate_limit" /\ req[r].pc = "check"
    /\ req' = [req EXCEPT ![r] =
                 IF LimitExceeded(StoryCountQuery(stories, req[r].user, req[r].time_threshold),
                                  flood_protection.max_stories)
                 THEN Observed(r, RateLimitResponse(r, flood_protection))
                 ELSE Observed(r, Checked(Response(r, 200), "Allowed"))]
    /\ stories' = stories \cup {[id |-> next_story_id, author_id |-> req[r].user,
                                  created_at |-> now, updated_at |-> Null]}
    /\ next_story_id' = next_story_id + 1
    /\ UNCHANGED <<now, is_active, chapters, next_chapter_id,
                   flood_protection, chapter_flood_protection, created_log, social>>

CheckRateLimitReturn(r) ==
    /\ req[r].op = "check_rate_limit" /\ req[r].pc = "check"
    /\ \E store_ok \in BOOLEAN :
          req' = [req EXCEPT ![r] =
                    IF ~store_ok THEN Checked(Response(r, 500), "StoreUnavailable")
                    ELSE IF LimitExceeded(StoryCountQuery(stories, req[r].user,
                                                          req[r].time_threshold),
                                          flood_protection.max_stories)
                         THEN Observed(r, RateLimitResponse(r, flood_protection))
                    ELSE Observed(r, Checked(Response(r, 200), "Allowed"))]
    /\ UNCHANGED <<now, is_active, stories, chapters, next_story_id, next_chapter_id,
                   flood_protection, chapter_flood_protection, created_log, social>>

\* ChapterFloodProtection.check_rate_limit, line 39
ChapterCheckRateLimitBegin(r, sid, u) ==
    /\ Free(r)
    /\ req' = [req EXCEPT ![r] = Started("chapter_check_rate_limit", "check", u, sid,
                                         ChapterTimeThreshold(chapter_flood_protection, now))]
    /\ UNCHANGED <<now, is_active, stories, chapters, next_story_id, next_chapter_id,
                   flood_protection, chapter_flood_protection, created_log, social>>

\* ChapterFloodProtection.check_rate_limit, lines 41-65
ChapterCheckRateLimitReturn(r) ==
    /\ req[r].op = "chapter_check_rate_limit" /\ req[r].pc = "check"
    /\ \E store_ok \in BOOLEAN :
          req' = [req EXCEPT ![r] =
                    IF ~store_ok THEN Checked(Response(r, 500), "StoreUnavailable")
                    ELSE IF ChapterLimitExceeded(
                                ChapterCountQuery(chapters, stories, req[r].story_id,
                                                  req[r].user, req[r].time_threshold),
                                chapter_flood_protection.max_chapters)
                         THEN ChapterRateLimitResponse(r, chapter_flood_protection)
                    ELSE Checked(Response(r, 200), "Allowed")]
    /\ UNCHANGED <<now, is_active, stories, chapters, next_story_id, next_chapter_id,
                   flood_protection, chapter_flood_protection, created_log, social>>

InitLimiter ==
    /\ now = 0
    /\ is_active = [u \in Users |-> u \notin InactiveUsers]
    /\ stories = ChapterStories
    /\ created_log = ChapterStories
    /\ next_story_id = 4
    /\ chapters = {}
    /\ next_chapter_id = 1
    /\ \E max_stories \in 1..MaxPolicyEvents, max_chapters \in 1..MaxPolicyEvents :
          /\ flood_protection = FloodProtection(max_stories, StoryWindow)
          /\ chapter_flood_protection = ChapterFloodProtection(max_chapters, ChapterWindowDefault)
    /\ req = [r \in Requests |-> Idle]
    /\ NoSocial

Authors == Users \ InactiveUsers

\* one call at a time
Caller == "r1"

NextLimiter ==
    \/ \E u \in Authors : CheckRateLimitBegin(Caller, u)
    \/ CheckRateLimitReturn(Caller)
    \/ \E sid \in 1..3, u \in Authors : ChapterCheckRateLimitBegin(Caller, sid, u)
    \/ ChapterCheckRateLimitReturn(Caller)
    \/ \E u \in Authors, sid \in 1..3 :
          next_chapter_id <= MaxLogRows /\ CreateChapter(u, sid, next_chapter_id)
    \/ Tick

SpecLimiter == InitLimiter /\ [][NextLimiter]_vars

(***************************************************************************)
(* FloodProtection.check_rate_limit called again and again, by two callers,*)
(* while stories are deleted and the clock advances.                       *)
(***************************************************************************)
NextRepeat ==
    \/ \E r \in Requests, u \in Authors : CheckRateLimitBegin(r, u)
    \/ \E r \in Requests : CheckRateLimitReturn(r)
    \/ \E u \in Authors, sid \in 1..MaxDeleteId : DeleteStory(u, sid)
    \/ Tick

SpecRepeat == InitLimiter /\ [][NextRepeat]_vars

(***************************************************************************)
(* The routes that write the rows of stories and chapters after their      *)
(* creation, on the stories of SpecChapter with no chapter yet; the        *)
(* chapters that are created are those a client sends an update for.       *)
(***************************************************************************)
InitUpdate ==
    /\ now = 0
    /\ is_active = [u \in Users |-> u \notin InactiveUsers]
    /\ stories = ChapterStories
    /\ chapters = {}
    /\ next_story_id = 4
    /\ next_chapter_id = 1
    /\ flood_protection = FloodProtection(StoryMax, StoryWindow)
    /\ chapter_flood_protection = NoChapterFloodProtection
    /\ req = [r \in Requests |-> Idle]
    /\ NoSocial
    /\ created_log = ChapterStories

NextUpdate ==
    \/ \E u \in Users, sid \in 1..3 :
          next_chapter_id <= MaxDeleteId /\ CreateChapter(u, sid, next_chapter_id)
    \/ \E u \in Users, sid \in 1..MaxDeleteId : UpdateStory(u, sid)
    \/ \E u \in Users, cid \in 1..MaxDeleteId : UpdateChapter(u, cid)
    \/ Tick

SpecUpdate == InitUpdate /\ [][NextUpdate]_vars

(***************************************************************************)
(* The routes that remove rows, on the stories of SpecChapter, while       *)
(* chapters are created.                                                   *)
(***************************************************************************)
NextDelete ==
    \/ \E u \in Users, sid \in 1..3 :
          next_chapter_id <= MaxLogRows /\ CreateChapter(u, sid, next_chapter_id)
    \/ \E u \in Users, cid \in 1..MaxDeleteId : DeleteChapter(u, cid)
    \/ \E u \in Users, sid \in 1..MaxDeleteId : DeleteStory(u, sid)
    \/ Tick

SpecDelete == InitUpdate /\ [][NextDelete]_vars

(***************************************************************************)
(* The story routes of the application around a FloodProtection whose      *)
(* max_stories is drawn from a small set, on the stories of SpecChapter:   *)
(* the requests of the slots run side by side, and requests arrive until   *)
(* as many stories as there are slots have been committed.                 *)
(***************************************************************************)
InitRace ==
    /\ now = 0
    /\ is_active = [u \in Users |-> u \notin InactiveUsers]
    /\ stories = ChapterStories
    /\ chapters = {}
    /\ next_story_id = 4
    /\ next_chapter_id = 1
    /\ \E max_stories \in 1..MaxPolicyEvents :
          flood_protection = FloodProtection(max_stories, StoryWindow)
    /\ chapter_flood_protection = NoChapterFloodProtection
    /\ req = [r \in Requests |-> Idle]
    /\ NoSocial
    /\ created_log = ChapterStories

NextRace ==
    \/ \E r \in Requests, u \in Authors :
          /\ Cardinality(created_log) < Cardinality(ChapterStories) + Cardinality(Requests)
          /\ CreateStoryBegin(r, u)
    \/ \E r \in Requests : CreateStoryCheck(r)
    \/ \E r \in Requests : CreateStoryCommit(r)
    \/ Tick

SpecRace == InitRace /\ [][NextRace]_vars

(***************************************************************************)
(* Properties.                                                             *)
(***************************************************************************)
\* the events of an actor stamped at or after a threshold
EventsSince(table, u, threshold) ==
    {e \in table : e.author_id = u /\ e.created_at >= threshold}

\* all the story events of an actor
EventsOf(table, u) == {e \in table : e.author_id = u}

\* all the chapters inside the stories of an actor
ChapterEventsOf(u) ==
    {c \in chapters : \E s \in stories : s.id = c.story_id /\ s.author_id = u}

\* the stories of an actor inside the window that ends now
InWindow(u) == EventsSince(stories, u, now - Window(flood_protection))

\* the chapters inside the stories of an actor stamped at or after a threshold
ChapterEventsSince(u, threshold) ==
    {c \in chapters :
        /\ c.created_at >= threshold
        /\ \E s \in stories : s.id = c.story_id /\ s.author_id = u}

\* request r takes the step that runs the story check, inside create_story
\* or called on its own
StoryCheckStep(r) ==
    /\ req[r].op \in {"create_story", "check_rate_limit"} /\ req[r].pc = "check"
    /\ req'[r].pc # "check"

\* ... and the counting query was executed
StoryCheckReturns(r) == StoryCheckStep(r) /\ req'[r].status # 500

\* request r takes the step that runs the chapter check
ChapterCheckStep(r) ==
    /\ req[r].op = "chapter_check_rate_limit" /\ req[r].pc = "check"
    /\ req'[r].pc # "check"

ChapterCheckReturns(r) == ChapterCheckStep(r) /\ req'[r].status # 500

\* C1 as claimed: once max_stories creations of an actor were admitted
\* inside the window of a check (whether or not the rows still exist), the
\* check is answered 429.
C1_DeniedAfterMaxAdmitted ==
    [][\A r \in Requests :
          (/\ StoryCheckReturns(r)
           /\ Cardinality(EventsSince(created_log, req[r].user, req[r].time_threshold))
                 >= flood_protection.max_stories)
          => req'[r].status = 429]_vars

\* C1 amended: when max_stories stories of an actor created inside the
\* window of a check still exist when the check counts, the check is
\* answered 429, whatever ran in between.
C1_DeniedWhileMaxExist ==
    [][\A r \in Requests :
          (/\ StoryCheckReturns(r)
           /\ Cardinality(EventsSince(stories, req[r].user, req[r].time_threshold))
                 >= flood_protection.max_stories)
          => req'[r].status = 429]_vars

\* C1 witness: an actor with max_stories stories in the window has been
\* answered 429 by create_story.
C1_Witness ==
    \E r \in Requests :
        /\ req[r].op = "create_story" /\ req[r].status = 429
        /\ Cardinality(InWindow(req[r].user)) = StoryMax

\* C4 as claimed: the wait time of a 429 lies between zero and the window.
C4_RetryAfterWithinWindow ==
    \A r \in Requests :
        (req[r].op = "create_story" /\ req[r].status = 429)
        => (0 <= req[r].remaining /\ req[r].remaining <= Window(flood_protection))

\* C5 as claimed: when max_stories stories of an actor were all created in
\* one second t0 and a check of that actor decides eps seconds later, inside
\* the window, the check is answered 429 with a wait time of at least the
\* window minus eps.
C5_RetryAfterNearFullWindow ==
    [][\A r \in Requests : \A t0 \in {s.created_at : s \in stories} :
          (/\ StoryCheckReturns(r)
           /\ t0 >= req[r].time_threshold
           /\ Cardinality({s \in stories : s.author_id = req[r].user /\ s.created_at = t0})
                 >= flood_protection.max_stories)
          => (/\ req'[r].status = 429
              /\ req'[r].remaining >= Window(flood_protection) - (now - t0))]_vars

\* C7 as claimed: when a check is answered 429 at time t with wait time w, a
\* check on the same rows at time t + w would be allowed.
C7_AllowedAfterWait ==
    [][\A r \in Requests :
          (StoryCheckStep(r) /\ req'[r].status = 429)
          => Cardinality(EventsSince(stories, req[r].user,
                                     (now + req'[r].remaining) - Window(flood_protection)))
               < flood_protection.max_stories]_vars

\* C9: while the story-creation requests of an actor do not overlap, the
\* actor never has more than max_stories stories inside the window.
C9_NoOvershootWithoutOverlap ==
    \A u \in Users : Cardinality(InWindow(u)) <= flood_protection.max_stories

\* C9 witness: a creation has been admitted and committed that filled the
\* window of its actor up to max_stories.
C9_Witness ==
    \E r \in Requests :
        /\ req[r].op = "create_story" /\ req[r].status = 201
        /\ Cardinality(InWindow(req[r].user)) = flood_protection.max_stories
        /\ next_story_id > InitStories + 1

\* C10: a request that the check has admitted is never denied afterwards,
\* whatever other requests of the same actor insert before it does: it
\* stays admitted until it answers 201 (or 500 when the commit fails).
C10_AdmittedStaysAdmitted ==
    [][\A r \in Requests :
          (req[r].op = "create_story" /\ req[r].pc = "commit")
          => (req'[r].pc = "commit" \/ req'[r].status \in {201, 500})]_vars

\* C10 witness: two requests of one actor were both admitted and the actor
\* has more than max_stories stories inside the window.
C10_Witness ==
    \E u \in Users :
        /\ Cardinality(InWindow(u)) > flood_protection.max_stories
        /\ \A r \in Requests : req[r].user = u /\ req[r].status = 201

\* C2 as claimed: an author with max_chapters (10) chapters inside the
\* window (20 minutes) gets no further chapter row under any of their
\* stories.
C2_EleventhChapterDenied ==
    [][\A u \in Users :
          Cardinality(ChapterEventsSince(u, now - ChapterWindowDefault * SecondsPerMinute))
             >= ChapterMaxDefault
          => \A c \in chapters' \ chapters :
                ~\E s \in stories : s.id = c.story_id /\ s.author_id = u]_vars

\* C3: a check whose query was executed is answered 429 exactly when the
\* number of counted events has reached the maximum of its policy.
C3_DeniedIffCountReachesMax ==
    [][\A r \in Requests :
          /\ StoryCheckReturns(r)
             => (req'[r].status = 429
                 <=> Cardinality(EventsSince(stories, req[r].user, req[r].time_threshold))
                       >= flood_protection.max_stories)
          /\ ChapterCheckReturns(r)
             => (req'[r].status = 429
                 <=> Cardinality(ChapterEventsSince(req[r].user, req[r].time_threshold))
                       >= chapter_flood_protection.max_chapters)]_vars

\* C3 witness: a story check was denied for an actor with exactly
\* max_stories stories, all inside the window.
C3_Witness ==
    \E r \in Requests :
        /\ req[r].op = "check_rate_limit" /\ req[r].status = 429
        /\ Cardinality(InWindow(req[r].user)) = flood_protection.max_stories
        /\ Cardinality(EventsOf(stories, req[r].user)) = flood_protection.max_stories

\* the events of an actor that are no older than event f
NoOlderThan(events, f) == {e \in events : e.created_at >= f.created_at}

\* C6 as claimed: when exactly max events of an actor are no older than an
\* event f and the check reads the clock at f.created_at + window or later,
\* the check is allowed.
C6_AllowedFromWindowEnd ==
    [][\A r \in Requests :
          /\ StoryCheckReturns(r)
             => \A f \in EventsOf(stories, req[r].user) :
                   (/\ Cardinality(NoOlderThan(EventsOf(stories, req[r].user), f))
                          = flood_protection.max_stories
                    /\ req[r].time_threshold >= f.created_at)
                   => req'[r].status # 429
          /\ ChapterCheckReturns(r)
             => \A f \in ChapterEventsOf(req[r].user) :
                   (/\ Cardinality(NoOlderThan(ChapterEventsOf(req[r].user), f))
                          = chapter_flood_protection.max_chapters
                    /\ req[r].time_threshold >= f.created_at)
                   => req'[r].status # 429]_vars

\* C6 amended: ... and the check reads the clock later than
\* f.created_at + window, the check is allowed.
C6_AllowedAfterWindowEnd ==
    [][\A r \in Requests :
          /\ StoryCheckReturns(r)
             => \A f \in EventsOf(stories, req[r].user) :
                   (/\ Cardinality(NoOlderThan(EventsOf(stories, req[r].user), f))
                          = flood_protection.max_stories
                    /\ req[r].time_threshold > f.created_at)
                   => req'[r].status # 429
          /\ ChapterCheckReturns(r)
             => \A f \in ChapterEventsOf(req[r].user) :
                   (/\ Cardinality(NoOlderThan(ChapterEventsOf(req[r].user), f))
                          = chapter_flood_protection.max_chapters
                    /\ req[r].time_threshold > f.created_at)
                   => req'[r].status # 429]_vars

\* C6 witness: a story check was allowed for an actor whose max_stories
\* stories are all older than the window.
C6_Witness ==
    \E r \in Requests :
        /\ req[r].op = "check_rate_limit" /\ req[r].status = 200
        /\ Cardinality(EventsOf(stories, req[r].user)) = flood_protection.max_stories
        /\ InWindow(req[r].user) = {}

\* C8: the chapter check is answered 429 exactly when the chapters inside
\* the window, added up over the stories of the user, reach max_chapters,
\* whatever story_id it is called with.
C8_CountsThroughStoryOwnership ==
    [][\A r \in Requests :
          ChapterCheckReturns(r)
          => (req'[r].status = 429
              <=> Cardinality(UNION {{c \in chapters : /\ c.story_id = s.id
                                                        /\ c.created_at >= req[r].time_threshold} :
                                       s \in {s \in stories : s.author_id = req[r].user}})
                    >= chapter_flood_protection.max_chapters)]_vars

\* C8 witness: the chapter check was denied for an author none of whose
\* stories holds max_chapters chapters by itself, while there is a chapter
\* of another author.
C8_Witness ==
    \E r \in Requests :
        /\ req[r].op = "chapter_check_rate_limit" /\ req[r].status = 429
        /\ \A s \in stories :
              s.author_id = req[r].user
              => Cardinality({c \in chapters : c.story_id = s.id})
                   < chapter_flood_protection.max_chapters

\* C11: when the story check of create_story finds max_stories stories or
\* more inside the window, the request is answered 429 with the detail
\* "Rate limit exceeded. You can create new story in {m} minutes and {s}
\* seconds", and no table, serial or account changes.
C11_DeniedAnswers429WithoutInsert ==
    [][\A r \in Requests :
          (/\ req[r].op = "create_story"
           /\ StoryCheckReturns(r)
           /\ Cardinality(EventsSince(stories, req[r].user, req[r].time_threshold))
                 >= flood_protection.max_stories)
          => (/\ req'[r].pc = "done"
              /\ req'[r].status = 429
              /\ req'[r].detail = <<"Rate limit exceeded. You can create new ", "story",
                                    " in ", req'[r].minutes, " minutes and ",
                                    req'[r].seconds, " seconds">>
              /\ stories' = stories
              /\ chapters' = chapters
              /\ next_story_id' = next_story_id
              /\ next_chapter_id' = next_chapter_id
              /\ is_active' = is_active)]_vars

\* C11 witness: create_story has answered 429 with that detail while the
\* stories table holds the max_stories rows it counted and no other row.
C11_Witness ==
    \E r \in Requests :
        /\ req[r].op = "create_story" /\ req[r].status = 429
        /\ Len(req[r].detail) = 7 /\ req[r].detail[2] = "story"
        /\ Cardinality(stories) = StoryMax
        /\ next_story_id = StoryMax + 1

\* C12: a story row is appended only by the commit step of a create_story
\* request of the row's author whose own check ran before, once, and
\* returned Allowed; and a check returns Allowed only from its own counting
\* step, with fewer than max_stories events counted.
C12_InsertOnlyAfterOwnAllowedCheck ==
    [][/\ \A s \in stories' \ stories :
             \E r \in Requests :
                 /\ req[r].op = "create_story" /\ req[r].pc = "commit"
                 /\ req[r].check = "Allowed" /\ req[r].queries = 1
                 /\ req[r].user = s.author_id
                 /\ req'[r].pc = "done" /\ req'[r].status = 201
       /\ \A r \in Requests :
             (req[r].op = "create_story" /\ req[r].pc # "commit" /\ req'[r].pc = "commit")
             => (/\ StoryCheckStep(r)
                 /\ Cardinality(EventsSince(stories, req[r].user, req[r].time_threshold))
                       < flood_protection.max_stories
                 /\ stories' = stories)]_vars

\* C12 witness: a create_story request whose check was allowed has
\* committed its row.
C12_Witness ==
    \E r \in Requests :
        /\ req[r].op = "create_story" /\ req[r].status = 201
        /\ req[r].check = "Allowed"
        /\ \E s \in stories : s.id > InitStories /\ s.author_id = req[r].user

\* C13: when the counting query of create_story cannot be executed, the
\* request ends at once with 500 (not 429, not 201), after that one call of
\* the query, and no story row is inserted.
C13_StoreFailureAnswers500 ==
    [][\A r \in Requests :
          /\ (req[r].check # "StoreUnavailable" /\ req'[r].check = "StoreUnavailable")
             => (/\ StoryCheckStep(r)
                 /\ req'[r].pc = "done"
                 /\ req'[r].status = 500
                 /\ req'[r].queries = 1
                 /\ stories' = stories
                 /\ next_story_id' = next_story_id)
          /\ (req[r].check = "StoreUnavailable" /\ req'[r] # req[r])
             => (req[r].pc = "done" /\ req'[r].check = "none")]_vars

\* C13 witness: create_story has answered 500 on a failed counting query
\* for an actor who has max_stories stories inside the window.
C13_Witness ==
    \E r \in Requests :
        /\ req[r].op = "create_story" /\ req[r].status = 500
        /\ req[r].check = "StoreUnavailable"
        /\ Cardinality(InWindow(req[r].user)) >= flood_protection.max_stories

\* C14 as claimed: the two integers of every 429 message are not negative,
\* the seconds are at most 59, and 60 * minutes + seconds is the wait time
\* in whole seconds.
C14_MinutesSecondsSplitWaitTime ==
    \A r \in Requests :
        req[r].status = 429
        => (/\ req[r].minutes >= 0
            /\ req[r].seconds >= 0 /\ req[r].seconds <= SecondsPerMinute - 1
            /\ SecondsPerMinute * req[r].minutes + req[r].seconds = req[r].remaining)

\* C15: a call of check_rate_limit of either limiter, however it ends
\* (True, 429 or the exception of the query), leaves the stories table, the
\* chapters table and the fields of both limiters as they were.
C15_CheckIsReadOnly ==
    [][\A r \in Requests :
          (StoryCheckStep(r) \/ ChapterCheckStep(r))
          => (/\ stories' = stories
              /\ chapters' = chapters
              /\ next_story_id' = next_story_id
              /\ next_chapter_id' = next_chapter_id
              /\ flood_protection' = flood_protection
              /\ chapter_flood_protection' = chapter_flood_protection)]_vars

\* C15 witness: a check has ended on a failed query while both tables hold
\* rows.
C15_Witness ==
    \E r \in Requests :
        /\ req[r].op \in {"check_rate_limit", "chapter_check_rate_limit"}
        /\ req[r].check = "StoreUnavailable"
        /\ stories # {} /\ Cardinality(chapters) = MaxLogRows

\* call r of the story check returns while slot q holds the result of an
\* earlier call for the same actor
SuccessiveChecks(q, r) ==
    /\ q # r
    /\ req[q].op = "check_rate_limit" /\ req[q].pc = "done"
    /\ req[q].check \in {"Allowed", "Denied"}
    /\ req[r].op = "check_rate_limit" /\ StoryCheckReturns(r)
    /\ req[r].user = req[q].user

C17_CountedEventRemovedOnlyByCascade ==
    [][/\ \A s \in stories \ stories' :
             s.created_at < now - Window(flood_protection)
       /\ \A c \in chapters \ chapters' :
             \/ c.created_at < now - ChapterWindowDefault * SecondsPerMinute
             \/ \E s \in stories \ stories' : s.id = c.story_id]_vars

\* C17 amended: the tables change only by the append of one row with the
\* next id or by the removal of one entity: a story goes with exactly its
\* own chapters (delete_story and its cascade), a chapter goes alone
\* (delete_chapter), counted or not; all other rows stay as they were.
C17_RemovedOnlyByDeleteOfEntity ==
    [][/\ \A s \in stories \ stories' :
             /\ stories' = stories \ {s}
             /\ chapters' = {c \in chapters : c.story_id # s.id}
       /\ \A c \in chapters \ chapters' :
             \/ \E s \in stories \ stories' : s.id = c.story_id
             \/ (chapters' = chapters \ {c} /\ stories' = stories)
       /\ \A s \in stories' \ stories : s.id = next_story_id /\ stories \subseteq stories'
       /\ \A c \in chapters' \ chapters :
             c.id = next_chapter_id /\ chapters \subseteq chapters']_vars

\* C17 witness: inside the window of its creation a story has been
\* deleted, and the first chapter has gone while a later chapter, under the
\* other story of the author, remains.
C17_Witness ==
    /\ now < Window(flood_protection)
    /\ ~\E s \in stories : s.id = 1
    /\ next_chapter_id > MaxLogRows
    /\ ~\E c \in chapters : c.id = 1
    /\ \E c \in chapters : c.story_id = 2

\* C18 as claimed: the story check of create_story counts exactly the
\* stories of the actor stamped inside [now - window, now], where now is the
\* clock reading of the check: it answers 429 exactly when max_stories of
\* them or more are in the table.
C18_CountsClosedWindow ==
    [][\A r \in Requests :
          (req[r].op = "create_story" /\ StoryCheckReturns(r))
          => (req'[r].status = 429
              <=> Cardinality({s \in stories :
                                  /\ s.author_id = req[r].user
                                  /\ s.created_at >= req[r].time_threshold
                                  /\ s.created_at <= req[r].time_threshold
                                                       + Window(flood_protection)})
                    >= flood_protection.max_stories)]_vars

\* C18 amended: the story check counts exactly the stories of the actor in
\* the table when the query runs that are stamped at now - window or later,
\* with no upper end: a story stamped exactly now - window is counted, an
\* older one is not, and one stamped later than the clock reading of the
\* check is counted as well.
C18_CountsFromWindowStart ==
    [][\A r \in Requests :
          (req[r].op = "create_story" /\ StoryCheckReturns(r))
          => (req'[r].status = 429
              <=> Cardinality({s \in stories :
                                  /\ s.author_id = req[r].user
                                  /\ ~(s.created_at < req[r].time_threshold)})
                    >= flood_protection.max_stories)]_vars

\* C18 witness: create_story has answered 429 to an actor who has exactly
\* max_stories stories, one of them stamped later than the clock reading of
\* that check.
C18_Witness ==
    \E r \in Requests :
        /\ req[r].op = "create_story" /\ req[r].status = 429
        /\ Cardinality(EventsOf(stories, req[r].user)) = flood_protection.max_stories
        /\ \E s \in stories : /\ s.author_id = req[r].user
                              /\ s.created_at > now + req[r].remaining

\* the ids of the stories of an actor, and of the chapters inside the
\* stories of an actor, that a check with the given threshold counts in the
\* given tables
CountedStoryIds(story_table, u, threshold) ==
    {s.id : s \in {s \in story_table : s.author_id = u /\ s.created_at >= threshold}}

CountedChapterIds(chapter_table, story_table, u, threshold) ==
    {c.id : c \in {c \in chapter_table :
                      /\ c.created_at >= threshold
                      /\ \E s \in story_table : s.id = c.story_id /\ s.author_id = u}}

\* C19: a step that rewrites a row (the row keeps its id) leaves its
\* created_at and its attribution (author_id of a story, story_id of a
\* chapter) as they were, and leaves in the window of every actor that
\* ends now the events of the rows it did not append.
C19_UpdatesKeepCreationEvents ==
    [][/\ \A s \in stories : \A s2 \in stories' :
             s2.id = s.id => (s2.created_at = s.created_at /\ s2.author_id = s.author_id)
       /\ \A c \in chapters : \A c2 \in chapters' :
             c2.id = c.id => (c2.created_at = c.created_at /\ c2.story_id = c.story_id)
       /\ (stories' # stories \/ chapters' # chapters)
          => \A u \in Users :
                LET threshold == now - Window(flood_protection)
                IN  /\ CountedStoryIds(stories', u, threshold) \cap {s.id : s \in stories}
                         = CountedStoryIds(stories, u, threshold)
                    /\ CountedChapterIds(chapters', stories', u, threshold)
                            \cap {c.id : c \in chapters}
                         = CountedChapterIds(chapters, stories, u, threshold)]_vars

\* C19 witness: a story and a chapter have both been updated later than
\* the second they were created in.
C19_Witness ==
    /\ \E s \in stories : s.updated_at # Null /\ s.updated_at > s.created_at
    /\ \E c \in chapters : c.updated_at # Null /\ c.updated_at > c.created_at

\* C20: with at most K story-creation requests in flight (K is the number
\* of request slots), no actor ever has more than max_stories + K - 1
\* stories inside the window that ends now.
C20_OvershootAtMostInFlightMinusOne ==
    \A u \in Users :
        Cardinality(InWindow(u)) <= flood_protection.max_stories + Cardinality(Requests) - 1

\* C20 witness: requests that ran side by side have filled the window of
\* an actor up to max_stories + K - 1, and a later request of that actor
\* has been answered 429.
C20_Witness ==
    \E r \in Requests :
        /\ req[r].op = "create_story" /\ req[r].status = 429
        /\ next_story_id > Cardinality(ChapterStories) + 1
        /\ Cardinality(InWindow(req[r].user))
              = flood_protection.max_stories + Cardinality(Requests) - 1

\* C21: when exactly max_stories stories of an actor were created at or
\* after the threshold of a check and one of them has been deleted since,
\* the check is allowed.
C21_DeletionGivesSlotBack ==
    [][\A r \in Requests :
          (/\ req[r].op = "create_story" /\ StoryCheckReturns(r)
           /\ Cardinality(EventsSince(created_log, req[r].user, req[r].time_threshold))
                 = flood_protection.max_stories
           /\ \E s \in EventsSince(created_log, req[r].user, req[r].time_threshold) :
                 s \notin stories)
          => (req'[r].status # 429 /\ req'[r].check = "Allowed")]_vars

\* C21 witness: inside one window an actor created max_stories stories,
\* deleted one, and then had one more creation admitted and committed.
C21_Witness ==
    \E u \in Users :
        /\ now < Window(flood_protection)
        /\ Cardinality(EventsOf(created_log, u)) = flood_protection.max_stories + 1
        /\ Cardinality(EventsOf(stories, u)) = flood_protection.max_stories
        /\ \E r \in Requests : req[r].user = u /\ req[r].status = 201

(***************************************************************************)
(* The application when an account that owns stories has been deactivated: *)
(* is_active is a column that no route writes, so the deactivated owner is *)
(* part of the initial state.                                              *)
(***************************************************************************)
InactiveStories ==
    {[id |-> i, author_id |-> u, created_at |-> 0, updated_at |-> Null] :
        i \in 1..StoryMax, u \in InactiveUsers}

InitInactive ==
    /\ now = 0
    /\ is_active = [u \in Users |-> u \notin InactiveUsers]
    /\ stories = InactiveStories
    /\ chapters = {}
    /\ next_story_id = StoryMax + 1
    /\ next_chapter_id = 1
    /\ flood_protection = FloodProtection(StoryMax, StoryWindow)
    /\ chapter_flood_protection = NoChapterFloodProtection
    /\ req = [r \in Requests |-> Idle]
    /\ NoSocial
    /\ created_log = InactiveStories

NextInactive ==
    \/ \E r \in Requests, u \in Users : CreateStoryBegin(r, u)
    \/ \E r \in Requests : CreateStoryCheck(r)
    \/ \E r \in Requests : CreateStoryCommit(r)
    \/ Tick

SpecInactive == InitInactive /\ [][NextInactive]_vars

\* C23: a create_story request of an account that is not active is answered
\* 403 "Your account is not active" in its first step, without a call of the
\* rate-limit check and without an insert, and it is never answered 429.
C23_InactiveAnswered403BeforeLimit ==
    [][\A r \in Requests :
          (/\ req'[r] # req[r]
           /\ req'[r].op = "create_story"
           /\ ~is_active[req'[r].user])
          => (/\ Free(r)
              /\ req'[r].pc = "done"
              /\ req'[r].status = 403
              /\ req'[r].detail = AccountNotActive
              /\ req'[r].check = "none"
              /\ req'[r].queries = 0
              /\ stories' = stories
              /\ next_story_id' = next_story_id)]_vars

\* C23 witness: an account that is not active and has max_stories stories
\* in the window has been answered 403.
C23_Witness ==
    \E r \in Requests :
        /\ req[r].op = "create_story" /\ req[r].pc = "done"
        /\ ~is_active[req[r].user]
        /\ Cardinality(InWindow(req[r].user)) >= flood_protection.max_stories
        /\ req[r].status = 403

\* C24: a create_story request that passed the rate-limit check and is
\* answered 422 or 415 leaves the stories table as it was, so the in-window
\* count of the actor is the same after the request as before it.
C24_FailedValidationConsumesNoQuota ==
    [][\A r \in Requests :
          (/\ req[r].op = "create_story" /\ StoryCheckStep(r)
           /\ req'[r].status \in {422, 415})
          => (/\ req'[r].check = "Allowed"
              /\ req'[r].pc = "done"
              /\ stories' = stories
              /\ next_story_id' = next_story_id
              /\ Cardinality(EventsSince(stories', req[r].user, now' - Window(flood_protection)))
                    = Cardinality(InWindow(req[r].user)))]_vars

\* C24 witness: both validation failures have been answered to an actor
\* whose stories are all still in the table and inside the window.
C24_Witness ==
    \E q, r \in Requests :
        /\ req[q].op = "create_story" /\ req[q].status = 422 /\ req[q].check = "Allowed"
        /\ req[r].op = "create_story" /\ req[r].status = 415 /\ req[r].check = "Allowed"
        /\ req[q].user = req[r].user
        /\ Cardinality(InWindow(req[r].user)) = InitStories
        /\ stories = InitialStories

(***************************************************************************)
(* The story routes around the FloodProtection of SpecRace, one request at *)
(* a time: every actor creates, updates and deletes stories between the    *)
(* checks of the others, and requests arrive until as many stories as      *)
(* there are slots have been committed.                                    *)
(***************************************************************************)
NextIsolation ==
    \/ \E u \in Authors :
          /\ Cardinality(created_log) < Cardinality(ChapterStories) + Cardinality(Requests)
          /\ CreateStoryBegin(Caller, u)
    \/ CreateStoryCheck(Caller)
    \/ CreateStoryCommit(Caller)
    \/ Tick
    \/ \E u \in Users, sid \in 1..MaxDeleteId : UpdateStory(u, sid)
    \/ \E u \in Users, sid \in 1..MaxDeleteId : DeleteStory(u, sid)

SpecIsolation == InitRace /\ [][NextIsolation]_vars

\* flood_protection.py lines 40-50: the decision of the story check of an
\* actor on a stories table, for a threshold
StoryDecision(table, user_id, time_threshold) ==
    LimitExceeded(StoryCountQuery(table, user_id, time_threshold),
                  flood_protection.max_stories)

\* C22: the decision of the story check for an actor depends on the actor's
\* own stories and the clock only: a step that leaves the actor's own rows
\* as they were leaves the decision for the same clock reading as it was, the
\* decision on the whole table is the decision on the actor's own rows, and
\* every check that is run is answered with that decision.
C22_DecisionDependsOnOwnStoriesOnly ==
    [][/\ \A a \in Users, t \in {now, now'} :
             LET th == TimeThreshold(flood_protection, t)
             IN  /\ (EventsOf(stories', a) = EventsOf(stories, a))
                       => (StoryDecision(stories', a, th) = StoryDecision(stories, a, th))
                 /\ StoryDecision(stories', a, th)
                       = StoryDecision(EventsOf(stories', a), a, th)
       /\ \A r \in Requests :
             (req[r].op = "create_story" /\ StoryCheckReturns(r))
             => ((req'[r].status = 429)
                   = (Cardinality({s \in EventsOf(stories, req[r].user) :
                                      s.created_at >= req[r].time_threshold})
                        >= flood_protection.max_stories))]_vars

\* C22 witness: an actor was denied with its own stories untouched, after
\* another actor had a story updated, a story deleted and a story created.
C22_Witness ==
    \E r \in Requests, u \in Users :
        /\ req[r].op = "create_story" /\ req[r].check = "Denied"
        /\ u # req[r].user
        /\ EventsOf(stories, req[r].user) = EventsOf(ChapterStories, req[r].user)
        /\ EventsOf(created_log, req[r].user) = EventsOf(ChapterStories, req[r].user)
        /\ \E s \in EventsOf(created_log, u) : s \notin stories
        /\ \E s \in EventsOf(stories, u) : s \notin ChapterStories

(***************************************************************************)
(* routes/social.py: likes and bookmarks.  create_like and create_bookmark *)
(* are cut at the await between the existence test and the commit of the   *)
(* insert; the unique constraint unique_user_story_like and the foreign    *)
(* key on stories.id are tested by the database when the insert is         *)
(* committed.  The bookmarks table has indexes and no unique constraint.   *)
(***************************************************************************)
StoryNotFound == <<"Story not found">>
StoryNotAvailable == <<"This story is not available">>
AlreadyLiked == <<"You have already liked this story">>
AlreadyBookmarked == <<"You have already bookmarked this story">>

\* the response of a social route: the status, the detail and the except
\* clause it came through
SocialResponse(op, u, sid, code, detail, caught) ==
    [Started(op, "done", u, sid, 0)
        EXCEPT !.status = code, !.detail = detail, !.caught = caught]

\* UniqueConstraint("user_id", "story_id", name="unique_user_story_like")
UniqueUserStoryLike(table) ==
    \A x, y \in table : (x.user_id = y.user_id /\ x.story_id = y.story_id) => x = y

\* the tests of create_like and create_bookmark before the insert: the
\* account, the story, the story's author, then the existing row
SocialTests(op, table, already, u, sid) ==
    IF ~is_active[u]
    THEN SocialResponse(op, u, sid, 403, AccountNotActive, "HTTPException")
    ELSE IF ~\E s \in stories : s.id = sid
    THEN SocialResponse(op, u, sid, 404, StoryNotFound, "HTTPException")
    ELSE IF \E s \in stories : s.id = sid /\ ~is_active[s.author_id]
    THEN SocialResponse(op, u, sid, 403, StoryNotAvailable, "HTTPException")
    ELSE IF \E x \in table : x.user_id = u /\ x.story_id = sid
    THEN SocialResponse(op, u, sid, 409, already, "HTTPException")
    ELSE Started(op, "commit", u, sid, 0)

\* lines 30-70
CreateLikeBegin(r, u, sid) ==
    /\ Free(r)
    /\ req' = [req EXCEPT ![r] = SocialTests("create_like", likes, AlreadyLiked, u, sid)]
    /\ UNCHANGED <<now, is_active, stories, chapters, next_story_id, next_chapter_id,
                   flood_protection, chapter_flood_protection, created_log, social>>

\* lines 72-109: the insert is committed unless the database refuses it;
\* IntegrityError (the unique constraint, or the foreign key when the story
\* has been deleted meanwhile) is answered 409, any other failure 500
MutCreateLikeCommitNoConstraint(r) ==
    /\ req[r].op = "create_like" /\ req[r].pc = "commit"
    /\ next_like_id <= MaxLikeId
    /\ likes' = likes \cup {[id |-> next_like_id, user_id |-> req[r].user,
                              story_id |-> req[r].story_id]}
    /\ next_like_id' = next_like_id + 1
    /\ req' = [req EXCEPT ![r] =
                 SocialResponse("create_like", req[r].user, req[r].story_id, 201, <<>>, "none")]
    /\ UNCHANGED <<now, is_active, stories, chapters, next_story_id, next_chapter_id,
                   flood_protection, chapter_flood_protection, created_log,
                   bookmarks, next_bookmark_id>>

CreateLikeCommit(r) ==
    /\ req[r].op = "create_like" /\ req[r].pc = "commit"
    /\ next_like_id <= MaxLikeId
    /\ \E commit_ok \in BOOLEAN :
          LET u == req[r].user
              sid == req[r].story_id
              row == [id |-> next_like_id, user_id |-> u, story_id |-> sid]
          IN  IF ~commit_ok
              THEN /\ req' = [req EXCEPT ![r] =
                                SocialResponse("create_like", u, sid, 500,
                                               <<"Failed to create like">>, "Exception")]
                   /\ UNCHANGED <<likes, next_like_id>>
              ELSE IF \/ ~UniqueUserStoryLike(likes \cup {row})
                      \/ ~\E s \in stories : s.id = sid
              THEN /\ req' = [req EXCEPT ![r] =
                                SocialResponse("create_like", u, sid, 409,
                                               AlreadyLiked, "IntegrityError")]
                   /\ UNCHANGED <<likes, next_like_id>>
              ELSE /\ likes' = likes \cup {row}
                   /\ next_like_id' = next_like_id + 1
                   /\ req' = [req EXCEPT ![r] =
                                SocialResponse("create_like", u, sid, 201, <<>>, "none")]
    /\ UNCHANGED <<now, is_active, stories, chapters, next_story_id, next_chapter_id,
                   flood_protection, chapter_flood_protection, created_log,
                   bookmarks, next_bookmark_id>>

\* lines 111-141: delete_like
DeleteLike(u, sid) ==
    /\ is_active[u]
    /\ \E l \in likes :
          /\ l.user_id = u /\ l.story_id = sid
          /\ likes' = likes \ {l}
    /\ UNCHANGED <<now, is_active, stories, chapters, next_story_id, next_chapter_id,
                   flood_protection, chapter_flood_protection, req, created_log,
                   bookmarks, next_like_id, next_bookmark_id>>

\* lines 162-219: the tests of create_bookmark.  A request that carries
\* last_read_chapter goes through the filter on Story.chapters, which is a
\* relationship and not a column: the outcome of that test is left open
\* between an error (500), "Invalid chapter number" (422) and a pass
CreateBookmarkBegin(r, u, sid) ==
    /\ Free(r)
    /\ \E last_read_chapter \in {"none", "error", "invalid", "valid"} :
          LET tests == SocialTests("create_bookmark", bookmarks, AlreadyBookmarked, u, sid)
              story_ok == /\ is_active[u]
                          /\ \E s \in stories : s.id = sid /\ is_active[s.author_id]
          IN  req' = [req EXCEPT ![r] =
                        IF story_ok /\ last_read_chapter = "error"
                        THEN SocialResponse("create_bookmark", u, sid, 500,
                                            <<"Failed to create bookmark">>, "Exception")
                        ELSE IF story_ok /\ last_read_chapter = "invalid"
                        THEN SocialResponse("create_bookmark", u, sid, 422,
                                            <<"Invalid chapter number">>, "HTTPException")
                        ELSE tests]
    /\ UNCHANGED <<now, is_active, stories, chapters, next_story_id, next_chapter_id,
                   flood_protection, chapter_flood_protection, created_log, social>>

\* lines 221-265: the insert is committed unless the database refuses it;
\* the bookmarks table has the foreign key on stories.id and no unique
\* constraint
CreateBookmarkCommit(r) ==
    /\ req[r].op = "create_bookmark" /\ req[r].pc = "commit"
    /\ next_bookmark_id <= MaxBookmarkId
    /\ \E commit_ok \in BOOLEAN :
          LET u == req[r].user
              sid == req[r].story_id
              row == [id |-> next_bookmark_id, user_id |-> u, story_id |-> sid]
          IN  IF ~commit_ok
              THEN /\ req' = [req EXCEPT ![r] =
                                SocialResponse("create_bookmark", u, sid, 500,
                                               <<"Failed to create bookmark">>, "Exception")]
                   /\ UNCHANGED <<bookmarks, next_bookmark_id>>
              ELSE IF ~\E s \in stories : s.id = sid
              THEN /\ req' = [req EXCEPT ![r] =
                                SocialResponse("create_bookmark", u, sid, 409,
                                               AlreadyBookmarked, "IntegrityError")]
                   /\ UNCHANGED <<bookmarks, next_bookmark_id>>
              ELSE /\ bookmarks' = bookmarks \cup {row}
                   /\ next_bookmark_id' = next_bookmark_id + 1
                   /\ req' = [req EXCEPT ![r] =
                                SocialResponse("create_bookmark", u, sid, 201, <<>>, "none")]
    /\ UNCHANGED <<now, is_active, stories, chapters, next_story_id, next_chapter_id,
                   flood_protection, chapter_flood_protection, created_log,
                   likes, next_like_id>>

\* lines 267-296: delete_bookmark removes the row that db.scalar returns,
\* any one of the rows of the user and the story
DeleteBookmark(u, sid) ==
    /\ is_active[u]
    /\ \E b \in bookmarks :
          /\ b.user_id = u /\ b.story_id = sid
          /\ bookmarks' = bookmarks \ {b}
    /\ UNCHANGED <<now, is_active, stories, chapters, next_story_id, next_chapter_id,
                   flood_protection, chapter_flood_protection, req, created_log,
                   likes, next_like_id, next_bookmark_id>>

(***************************************************************************)
(* The like routes and delete_story on the stories of SpecChapter, the     *)
(* requests of the slots side by side.                                     *)
(***************************************************************************)
NextLike ==
    \/ \E r \in Requests, u \in Users, sid \in 1..MaxDeleteId : CreateLikeBegin(r, u, sid)
    \/ \E r \in Requests : CreateLikeCommit(r)
    \/ \E u \in Users, sid \in 1..MaxDeleteId : DeleteLike(u, sid)
    \/ \E u \in Users, sid \in 1..MaxDeleteId : DeleteStory(u, sid)

SpecLike == InitUpdate /\ [][NextLike]_vars

\* the same for the bookmark routes
NextBookmark ==
    \/ \E r \in Requests, u \in Users, sid \in 1..MaxDeleteId : CreateBookmarkBegin(r, u, sid)
    \/ \E r \in Requests : CreateBookmarkCommit(r)
    \/ \E u \in Users, sid \in 1..MaxDeleteId : DeleteBookmark(u, sid)
    \/ \E u \in Users, sid \in 1..MaxDeleteId : DeleteStory(u, sid)

SpecBookmark == InitUpdate /\ [][NextBookmark]_vars

\* C26: no two likes of one user for one story, in every state; a
\* create_like request whose insert meets an existing like of the same user
\* and story inserts nothing and is answered 409 "You have already liked
\* this story", and so is a request that finds the like in its test.
C26_AtMostOneLikePerUserAndStory ==
    [][/\ UniqueUserStoryLike(likes) /\ UniqueUserStoryLike(likes')
       /\ \A r \in Requests :
             (/\ req'[r] # req[r]
              /\ req'[r].op = "create_like"
              /\ is_active[req'[r].user]
              /\ \E l \in likes : l.user_id = req'[r].user /\ l.story_id = req'[r].story_id)
             => (/\ req'[r].pc = "done"
                 /\ req'[r].status \in {409, 500}
                 /\ req'[r].status = 409 => req'[r].detail = AlreadyLiked
                 /\ likes' = likes)]_vars

\* C26 witness: two requests of one user for one story both passed the
\* existence test; one inserted the like and the other was refused by the
\* unique constraint with 409.
C26_Witness ==
    \E q, r \in Requests :
        /\ req[q].op = "create_like" /\ req[q].status = 201
        /\ req[r].op = "create_like" /\ req[r].status = 409
        /\ req[r].caught = "IntegrityError"
        /\ req[q].user = req[r].user /\ req[q].story_id = req[r].story_id
        /\ Cardinality({l \in likes : l.user_id = req[r].user
                                       /\ l.story_id = req[r].story_id}) = 1
        /\ \E s \in stories : s.id = req[r].story_id

\* C27: no two bookmarks of one user for one story, in every state.
C27_AtMostOneBookmarkPerUserAndStory ==
    \A x, y \in bookmarks : (x.user_id = y.user_id /\ x.story_id = y.story_id) => x = y

(***************************************************************************)
(* The routes that change stories and chapters, each as one step from the  *)
(* request to its response: the tests in the order of the code, then the   *)
(* change of the table.                                                    *)
(***************************************************************************)
NotTheAuthor == <<"You're not the author of this story">>
ChapterNotFound == <<"Chapter not found">>
CreateChapterFailed == <<"An error occurred while creating the chapter">>
OnlyOwnStoriesUpdated == <<"You can only update your own stories">>
OnlyOwnStoriesDeleted == <<"You can only delete your own stories">>

\* UniqueConstraint('story_id', 'chapter_number', name='unique_chapter_number')
UniqueChapterNumber(table) ==
    \A x, y \in table :
        (x.story_id = y.story_id /\ x.chapter_number = y.chapter_number) => x = y

\* the response of a story or chapter route
RouteResponse(op, u, sid, cid, n, code, detail) ==
    [Started(op, "done", u, sid, 0)
        EXCEPT !.chapter_id = cid, !.chapter_number = n, !.status = code, !.detail = detail]

\* routes/chapter.py lines 22-44: create_chapter; an insert that the
\* database refuses (the unique constraint, or any other failure of the
\* commit) ends in `except Exception` and is answered 500
MutCreateChapterRequestNoOwnerTest(r, u, sid, n) ==
    /\ Free(r)
    /\ \E commit_ok \in BOOLEAN :
          LET row == [id |-> next_chapter_id, story_id |-> sid, chapter_number |-> n,
                      created_at |-> now, updated_at |-> Null]
          IN  IF ~\E s \in stories : s.id = sid
              THEN /\ req' = [req EXCEPT ![r] =
                                RouteResponse("create_chapter", u, sid, 0, n, 404, StoryNotFound)]
                   /\ UNCHANGED <<chapters, next_chapter_id>>
              ELSE IF ~commit_ok \/ ~UniqueChapterNumber(chapters \cup {row})
              THEN /\ req' = [req EXCEPT ![r] =
                                RouteResponse("create_chapter", u, sid, 0, n, 500,
                                              CreateChapterFailed)]
                   /\ UNCHANGED <<chapters, next_chapter_id>>
              ELSE /\ chapters' = chapters \cup {row}
                   /\ next_chapter_id' = next_chapter_id + 1
                   /\ req' = [req EXCEPT ![r] =
                                RouteResponse("create_chapter", u, sid, next_chapter_id, n,
                                              200, <<>>)]
    /\ UNCHANGED <<now, is_active, stories, next_story_id,
                   flood_protection, chapter_flood_protection, created_log, social>>

MutCreateChapterRequestNoConstraint(r, u, sid, n) ==
    /\ Free(r)
    /\ \E commit_ok \in BOOLEAN :
          LET row == [id |-> next_chapter_id, story_id |-> sid, chapter_number |-> n,
                      created_at |-> now, updated_at |-> Null]
          IN  IF ~\E s \in stories : s.id = sid
              THEN /\ req' = [req EXCEPT ![r] =
                                RouteResponse("create_chapter", u, sid, 0, n, 404, StoryNotFound)]
                   /\ UNCHANGED <<chapters, next_chapter_id>>
              ELSE IF ~\E s \in stories : s.id = sid /\ s.author_id = u
              THEN /\ req' = [req EXCEPT ![r] =
                                RouteResponse("create_chapter", u, sid, 0, n, 403, NotTheAuthor)]
                   /\ UNCHANGED <<chapters, next_chapter_id>>
              ELSE IF ~commit_ok
              THEN /\ req' = [req EXCEPT ![r] =
                                RouteResponse("create_chapter", u, sid, 0, n, 500,
                                              CreateChapterFailed)]
                   /\ UNCHANGED <<chapters, next_chapter_id>>
              ELSE /\ chapters' = chapters \cup {row}
                   /\ next_chapter_id' = next_chapter_id + 1
                   /\ req' = [req EXCEPT ![r] =
                                RouteResponse("create_chapter", u, sid, next_chapter_id, n,
                                              200, <<>>)]
    /\ UNCHANGED <<now, is_active, stories, next_story_id,
                   flood_protection, chapter_flood_protection, created_log, social>>

CreateChapterRequest(r, u, sid, n) ==
    /\ Free(r)
    /\ \E commit_ok \in BOOLEAN :
          LET row == [id |-> next_chapter_id, story_id |-> sid, chapter_number |-> n,
                      created_at |-> now, updated_at |-> Null]
          IN  IF ~\E s \in stories : s.id = sid
              THEN /\ req' = [req EXCEPT ![r] =
                                RouteResponse("create_chapter", u, sid, 0, n, 404, StoryNotFound)]
                   /\ UNCHANGED <<chapters, next_chapter_id>>
              ELSE IF ~\E s \in stories : s.id = sid /\ s.author_id = u
              THEN /\ req' = [req EXCEPT ![r] =
                                RouteResponse("create_chapter", u, sid, 0, n, 403, NotTheAuthor)]
                   /\ UNCHANGED <<chapters, next_chapter_id>>
              ELSE IF ~commit_ok \/ ~UniqueChapterNumber(chapters \cup {row})
              THEN /\ req' = [req EXCEPT ![r] =
                                RouteResponse("create_chapter", u, sid, 0, n, 500,
                                              CreateChapterFailed)]
                   /\ UNCHANGED <<chapters, next_chapter_id>>
              ELSE /\ chapters' = chapters \cup {row}
                   /\ next_chapter_id' = next_chapter_id + 1
                   /\ req' = [req EXCEPT ![r] =
                                RouteResponse("create_chapter", u, sid, next_chapter_id, n,
                                              200, <<>>)]
    /\ UNCHANGED <<now, is_active, stories, next_story_id,
                   flood_protection, chapter_flood_protection, created_log, social>>

\* routes/chapter.py lines 71-95: update_chapter
UpdateChapterRequest(r, u, cid) ==
    /\ Free(r)
    /\ IF ~\E c \in chapters : c.id = cid
       THEN /\ req' = [req EXCEPT ![r] =
                         RouteResponse("update_chapter", u, 0, cid, 0, 404, ChapterNotFound)]
            /\ UNCHANGED chapters
       ELSE \E c \in chapters :
              /\ c.id = cid
              /\ IF ~\E s \in stories : s.id = c.story_id /\ s.author_id = u
                 THEN /\ req' = [req EXCEPT ![r] =
                                   RouteResponse("update_chapter", u, c.story_id, cid,
                                                 c.chapter_number, 403, NotTheAuthor)]
                      /\ UNCHANGED chapters
                 ELSE /\ chapters' = (chapters \ {c}) \cup {[c EXCEPT !.updated_at = now]}
                      /\ req' = [req EXCEPT ![r] =
                                   RouteResponse("update_chapter", u, c.story_id, cid,
                                                 c.chapter_number, 200, <<>>)]
    /\ UNCHANGED <<now, is_active, stories, next_story_id, next_chapter_id,
                   flood_protection, chapter_flood_protection, created_log, social>>

\* routes/chapter.py lines 102-123: delete_chapter
DeleteChapterRequest(r, u, cid) ==
    /\ Free(r)
    /\ IF ~\E c \in chapters : c.id = cid
       THEN /\ req' = [req EXCEPT ![r] =
                         RouteResponse("delete_chapter", u, 0, cid, 0, 404, ChapterNotFound)]
            /\ UNCHANGED chapters
       ELSE \E c \in chapters :
              /\ c.id = cid
              /\ IF ~\E s \in stories : s.id = c.story_id /\ s.author_id = u
                 THEN /\ req' = [req EXCEPT ![r] =
                                   RouteResponse("delete_chapter", u, c.story_id, cid,
                                                 c.chapter_number, 403, NotTheAuthor)]
                      /\ UNCHANGED chapters
                 ELSE /\ chapters' = chapters \ {c}
                      /\ req' = [req EXCEPT ![r] =
                                   RouteResponse("delete_chapter", u, c.story_id, cid,
                                                 c.chapter_number, 204, <<>>)]
    /\ UNCHANGED <<now, is_active, stories, next_story_id, next_chapter_id,
                   flood_protection, chapter_flood_protection, created_log, social>>

\* routes/story.py lines 308-399: update_story
UpdateStoryRequest(r, u, sid) ==
    /\ Free(r)
    /\ \E title_ok \in BOOLEAN, cover_ok \in BOOLEAN :
          IF ~is_active[u]
          THEN /\ req' = [req EXCEPT ![r] =
                            RouteResponse("update_story", u, sid, 0, 0, 403, AccountNotActive)]
               /\ UNCHANGED stories
          ELSE IF ~\E s \in stories : s.id = sid
          THEN /\ req' = [req EXCEPT ![r] =
                            RouteResponse("update_story", u, sid, 0, 0, 404, StoryNotFound)]
               /\ UNCHANGED stories
          ELSE IF ~\E s \in stories : s.id = sid /\ s.author_id = u
          THEN /\ req' = [req EXCEPT ![r] =
                            RouteResponse("update_story", u, sid, 0, 0, 403,
                                          OnlyOwnStoriesUpdated)]
               /\ UNCHANGED stories
          ELSE IF ~title_ok \/ ~cover_ok
          THEN /\ req' = [req EXCEPT ![r] =
                            RouteResponse("update_story", u, sid, 0, 0,
                                          IF ~title_ok THEN 422 ELSE 415, <<>>)]
               /\ UNCHANGED stories
          ELSE \E s \in stories :
                 /\ s.id = sid
                 /\ stories' = (stories \ {s}) \cup {[s EXCEPT !.updated_at = now]}
                 /\ req' = [req EXCEPT ![r] =
                              RouteResponse("update_story", u, sid, 0, 0, 200, <<>>)]
    /\ UNCHANGED <<now, is_active, chapters, next_story_id, next_chapter_id,
                   flood_protection, chapter_flood_protection, created_log, social>>

\* routes/story.py lines 408-447: delete_story
DeleteStoryRequest(r, u, sid) ==
    /\ Free(r)
    /\ IF ~is_active[u]
       THEN /\ req' = [req EXCEPT ![r] =
                         RouteResponse("delete_story", u, sid, 0, 0, 403, AccountNotActive)]
            /\ UNCHANGED <<stories, chapters, likes, bookmarks>>
       ELSE IF ~\E s \in stories : s.id = sid
       THEN /\ req' = [req EXCEPT ![r] =
                         RouteResponse("delete_story", u, sid, 0, 0, 404, StoryNotFound)]
            /\ UNCHANGED <<stories, chapters, likes, bookmarks>>
       ELSE IF ~\E s \in stories : s.id = sid /\ s.author_id = u
       THEN /\ req' = [req EXCEPT ![r] =
                         RouteResponse("delete_story", u, sid, 0, 0, 403,
                                       OnlyOwnStoriesDeleted)]
            /\ UNCHANGED <<stories, chapters, likes, bookmarks>>
       ELSE /\ stories' = {s \in stories : s.id # sid}
            /\ chapters' = {c \in chapters : c.story_id # sid}
            /\ likes' = {l \in likes : l.story_id # sid}
            /\ bookmarks' = {b \in bookmarks : b.story_id # sid}
            /\ req' = [req EXCEPT ![r] =
                         RouteResponse("delete_story", u, sid, 0, 0, 204, <<>>)]
    /\ UNCHANGED <<now, is_active, next_story_id, next_chapter_id, flood_protection,
                   chapter_flood_protection, created_log, next_like_id, next_bookmark_id>>

(***************************************************************************)
(* These routes on the stories of SpecChapter, one request at a time, by   *)
(* every user and for ids that exist and ids that do not, all within one   *)
(* second.                                                                 *)
(***************************************************************************)
NextOwner ==
    \/ \E u \in Users, sid \in 1..next_story_id :
          /\ next_chapter_id <= MaxDeleteId
          /\ CreateChapterRequest(Caller, u, sid, next_chapter_id)
    \/ \E u \in Users, cid \in 1..next_chapter_id : UpdateChapterRequest(Caller, u, cid)
    \/ \E u \in Users, cid \in 1..next_chapter_id : DeleteChapterRequest(Caller, u, cid)
    \/ \E u \in Users, sid \in (1..MaxDeleteId) \cup {next_story_id} :
          UpdateStoryRequest(Caller, u, sid)
    \/ \E u \in Users, sid \in (1..MaxDeleteId) \cup {next_story_id} :
          DeleteStoryRequest(Caller, u, sid)

SpecOwner == InitUpdate /\ [][NextOwner]_vars

(***************************************************************************)
(* create_chapter for chapter numbers that are free and numbers that are   *)
(* taken, with the routes that remove chapters.                            *)
(***************************************************************************)
NextNumber ==
    \/ \E u \in Users, sid \in 1..3, n \in 1..MaxLogRows :
          next_chapter_id <= MaxLogRows /\ CreateChapterRequest(Caller, u, sid, n)
    \/ \E u \in Users, cid \in 1..MaxDeleteId : DeleteChapterRequest(Caller, u, cid)
    \/ \E u \in Users, sid \in 1..MaxDeleteId : DeleteStoryRequest(Caller, u, sid)

SpecNumber == InitUpdate /\ [][NextNumber]_vars

\* the story exists / the requester is its author / the chapter exists / the
\* requester is the author of the chapter's story, before the step
StoryExists(sid) == \E s \in stories : s.id = sid
IsStoryAuthor(u, sid) == \E s \in stories : s.id = sid /\ s.author_id = u
ChapterExists(cid) == \E c \in chapters : c.id = cid
IsChapterAuthor(u, cid) == \E c \in chapters : c.id = cid /\ IsStoryAuthor(u, c.story_id)

\* request r is answered in this step by one of the routes that change
\* stories and chapters
RouteAnswers(r) ==
    /\ req'[r] # req[r]
    /\ req'[r].pc = "done"
    /\ req'[r].op \in {"create_chapter", "update_chapter", "delete_chapter",
                        "update_story", "delete_story"}

\* the rules of the routes for a request of user u, from any account (any =
\* TRUE) or from an active account only
OwnershipRules(r, any) ==
    LET rec == req'[r]
        u == rec.user
        same == stories' = stories /\ chapters' = chapters
    IN  /\ rec.op \in {"update_story", "delete_story"} =>
              /\ (any \/ is_active[u]) /\ ~StoryExists(rec.story_id)
                    => (rec.status = 404 /\ same)
              /\ StoryExists(rec.story_id) /\ ~IsStoryAuthor(u, rec.story_id)
                    => (rec.status = 403 /\ same)
              /\ (rec.status \in {200, 204} \/ ~same) => IsStoryAuthor(u, rec.story_id)
        /\ rec.op = "create_chapter" =>
              /\ ~StoryExists(rec.story_id) => (rec.status = 404 /\ same)
              /\ StoryExists(rec.story_id) /\ ~IsStoryAuthor(u, rec.story_id)
                    => (rec.status = 403 /\ same)
              /\ (rec.status \in {200, 204} \/ ~same) => IsStoryAuthor(u, rec.story_id)
        /\ rec.op \in {"update_chapter", "delete_chapter"} =>
              /\ ~ChapterExists(rec.chapter_id) => (rec.status = 404 /\ same)
              /\ ChapterExists(rec.chapter_id) /\ ~IsChapterAuthor(u, rec.chapter_id)
                    => (rec.status = 403 /\ same)
              /\ (rec.status \in {200, 204} \/ ~same) => IsChapterAuthor(u, rec.chapter_id)

\* C25 as claimed: the five routes succeed for the author only; a request
\* for a missing story or chapter is answered 404 and a request by a
\* non-author 403, and both leave the tables unchanged.
C25_OnlyAuthorChangesContent ==
    [][\A r \in Requests : RouteAnswers(r) => OwnershipRules(r, TRUE)]_vars

\* C25: the same, where update_story and delete_story answer 404 for a
\* missing story to a requester whose account is active.
C25_OnlyAuthorChangesContentWhenActive ==
    [][\A r \in Requests : RouteAnswers(r) => OwnershipRules(r, FALSE)]_vars

\* C25 witness: a non-author with an active account was refused the
\* deletion of a chapter that its author had created and updated, and the
\* chapter is still there.
C25_Witness ==
    \E r \in Requests, c \in chapters :
        /\ req[r].op = "delete_chapter" /\ req[r].status = 403
        /\ req[r].detail = NotTheAuthor
        /\ is_active[req[r].user]
        /\ req[r].chapter_id = c.id
        /\ c.updated_at # Null
        /\ ~IsStoryAuthor(req[r].user, c.story_id)

\* C28: no two chapters of one story have the same number, in every state;
\* a create_chapter request for a story and a number that a chapter already
\* has inserts nothing and leaves the chapters as they were, and it is
\* answered with an error: 500 "An error occurred while creating the
\* chapter" when it comes from the author and so reaches the insert.
C28_ChapterNumbersUnique ==
    [][/\ UniqueChapterNumber(chapters) /\ UniqueChapterNumber(chapters')
       /\ \A r \in Requests :
             (/\ RouteAnswers(r)
              /\ req'[r].op = "create_chapter"
              /\ \E c \in chapters : /\ c.story_id = req'[r].story_id
                                      /\ c.chapter_number = req'[r].chapter_number)
             => (/\ chapters' = chapters
                 /\ next_chapter_id' = next_chapter_id
                 /\ req'[r].status >= 400
                 /\ IsStoryAuthor(req'[r].user, req'[r].story_id)
                       => (req'[r].status = 500 /\ req'[r].detail = CreateChapterFailed))]_vars

\* C28 witness: the author asked for a chapter number that a chapter of
\* the story has, and was answered 500 with the chapter still there.
C28_Witness ==
    \E r \in Requests, c \in chapters :
        /\ req[r].op = "create_chapter" /\ req[r].status = 500
        /\ req[r].detail = CreateChapterFailed
        /\ c.story_id = req[r].story_id /\ c.chapter_number = req[r].chapter_number
        /\ IsStoryAuthor(req[r].user, c.story_id)
        /\ Cardinality(chapters) = 1

(***************************************************************************)
(* The two limiters called one call at a time while a chapter is created   *)
(* and the clock advances.  A call that has sent its counting query gets   *)
(* the result or the exception of db.execute: the return steps are weakly  *)
(* fair.                                                                   *)
(***************************************************************************)
NextOutcome ==
    \/ \E u \in Authors : CheckRateLimitBegin(Caller, u)
    \/ CheckRateLimitReturn(Caller)
    \/ \E sid \in 1..3, u \in Authors : ChapterCheckRateLimitBegin(Caller, sid, u)
    \/ ChapterCheckRateLimitReturn(Caller)
    \/ \E u \in Authors, sid \in 1..3 :
          next_chapter_id <= MaxDeleteId /\ CreateChapter(u, sid, next_chapter_id)
    \/ Tick

FairSpecOutcome ==
    /\ InitLimiter /\ [][NextOutcome]_vars
    /\ WF_vars(CheckRateLimitReturn(Caller))
    /\ WF_vars(ChapterCheckRateLimitReturn(Caller))

\* a call of one of the two limiters
LimiterOps == {"check_rate_limit", "chapter_check_rate_limit"}

\* C29: a call of a limiter that has started ends; it ends after exactly
\* one counting query, with exactly one of the outcomes Allowed (a return),
\* Denied (429 with the wait time) and store failure (the exception of the
\* query), and no call sends a second query.
C29_CheckEndsAfterOneQuery ==
    /\ [](\A r \in Requests :
            req[r].op \in LimiterOps =>
                /\ req[r].queries \in {0, 1}
                /\ req[r].pc = "check" => (req[r].queries = 0 /\ req[r].check = "none")
                /\ req[r].pc = "done" =>
                      /\ req[r].queries = 1
                      /\ req[r].check \in {"Allowed", "Denied", "StoreUnavailable"}
                      /\ (req[r].check = "Allowed") = (req[r].status = 200)
                      /\ (req[r].check = "Denied") = (req[r].status = 429)
                      /\ (req[r].check = "StoreUnavailable") = (req[r].status = 500)
                      /\ req[r].check = "Denied"
                            => req[r].detail
                                 = RateLimitDetail(IF req[r].op = "check_rate_limit"
                                                   THEN "story" ELSE "chapter",
                                                   req[r].minutes, req[r].seconds))
    /\ \A r \in Requests :
          (req[r].op \in LimiterOps /\ req[r].pc = "check")
             ~> (req[r].op \in LimiterOps /\ req[r].pc = "done")

\* C29 witness: a call of the chapter limiter has ended Denied after one
\* query.
C29_Witness ==
    \E r \in Requests :
        /\ req[r].op = "chapter_check_rate_limit" /\ req[r].pc = "done"
        /\ req[r].check = "Denied" /\ req[r].queries = 1 /\ req[r].status = 429

====
